---- MODULE Spec2Model ----
(***************************************************************************)
(* State-machine model of the todo TUI in src/src/main.rs: the App struct  *)
(* (todos, list selection, input buffer, input mode), the snapshot file    *)
(* todos.json, and the event loop of run_app with one action per match arm *)
(* of its key dispatch.                                                    *)
(*                                                                         *)
(* Strings are sequences of symbols.  A symbol is a TLA+ string: one       *)
(* character for typed text and for JSON punctuation, one lexeme for the   *)
(* JSON literals true/false, for the field names and for the four fixed    *)
(* tutorial texts (none of which contains a character JSON escapes).       *)
(* Selection indices are 0-based as in the source; sequences are 1-based.  *)
(***************************************************************************)
EXTENDS Integers, Sequences, FiniteSets, TLC

VARIABLES
    todos,       \* App.todos: sequence of [text, completed]
    state,       \* App.state.selected(): None or Some(i)
    input,       \* App.input: the input buffer
    input_mode,  \* App.input_mode
    disk,        \* the file todos.json: [status, contents]
    pc,          \* position of run_app: "loop", "quit" (Ok(())) or "error" (Err)
    op,          \* the handler the last loop iteration ran
    saved,       \* outcome of the save() that handler invoked: "none", "ok", "failed"
    mutation,    \* None, or Some([before, saved]): the list before the most recent
                 \* change of the list and the outcome of the save that followed it
    events,      \* number of events read so far
    main,        \* position of main: the call it makes next, or how it returned
    term,        \* the terminal: [raw, alt] (raw mode on, alternate screen entered)
    teardown,    \* the restoration calls main has made, in order
    printed      \* main has printed the loop's error

vars == <<todos, state, input, input_mode, disk, pc, op, saved, mutation, events,
          main, term, teardown, printed>>

\* What main owns besides the App.
mainvars == <<main, term, teardown, printed>>

----------------------------------------------------------------------------
(* Bounds *)

\* Longest session explored, in events read by the loop.
MaxEvents == 4

\* Longest input buffer typed.
MaxInput == 2

----------------------------------------------------------------------------
(* Option<usize> and items *)

None == <<>>

Some(x) == <<x>>

TodoItem(t, c) == [text |-> t, completed |-> c]

\* Characters a key press can carry.
Chars == {"a", "d", "j", "k", "q", " ", "\"", "\\"}

Char(c) == <<"Char", c>>

Enter == <<"Enter">>

Backspace == <<"Backspace">>

Esc == <<"Esc">>

Up == <<"Up">>

Down == <<"Down">>

Tab == <<"Tab">>

KeyCodes == {Char(c) : c \in Chars} \cup {Enter, Backspace, Esc, Up, Down, Tab}

\* KeyEventKind values other than Press.
NotPressKinds == {"Release", "Repeat"}

----------------------------------------------------------------------------
(* serde_json::to_string_pretty(&Vec<TodoItem>) *)

Indent(n) == [i \in 1..n |-> " "]

RECURSIVE Escape(_)
Escape(t) ==
    IF t = <<>> THEN <<>>
    ELSE (IF Head(t) \in {"\"", "\\"} THEN <<"\\", Head(t)>> ELSE <<Head(t)>>)
         \o Escape(Tail(t))

ItemJson(it) ==
    Indent(2) \o <<"{", "\n">>
    \o Indent(4) \o <<"\"", "text", "\"", ":", " ", "\"">> \o Escape(it.text)
    \o <<"\"", ",", "\n">>
    \o Indent(4) \o <<"\"", "completed", "\"", ":", " ",
                      IF it.completed THEN "true" ELSE "false", "\n">>
    \o Indent(2) \o <<"}">>

RECURSIVE ItemsJson(_)
ItemsJson(l) ==
    IF Len(l) = 1 THEN ItemJson(l[1])
    ELSE ItemJson(Head(l)) \o <<",", "\n">> \o ItemsJson(Tail(l))

to_string_pretty(l) ==
    IF l = <<>> THEN <<"[", "]">>
    ELSE <<"[", "\n">> \o ItemsJson(l) \o <<"\n", "]">>

----------------------------------------------------------------------------
(* serde_json::from_str::<Vec<TodoItem>>(&contents) *)

Fail == [ok |-> FALSE, pos |-> 0, val |-> <<>>]

Parsed(p, v) == [ok |-> TRUE, pos |-> p, val |-> v]

At(f, p) == IF p >= 1 /\ p <= Len(f) THEN f[p] ELSE "EOF"

RECURSIVE SkipWs(_, _)
SkipWs(f, p) == IF At(f, p) \in {" ", "\n"} THEN SkipWs(f, p + 1) ELSE p

RECURSIVE ParseChars(_, _, _)
ParseChars(f, p, acc) ==
    IF p > Len(f) THEN Fail
    ELSE IF f[p] = "\"" THEN Parsed(p + 1, acc)
    ELSE IF f[p] = "\\"
         THEN IF At(f, p + 1) \in {"\"", "\\"}
              THEN ParseChars(f, p + 2, Append(acc, f[p + 1]))
              ELSE Fail
    ELSE ParseChars(f, p + 1, Append(acc, f[p]))

ParseString(f, p) == IF At(f, p) = "\"" THEN ParseChars(f, p + 1, <<>>) ELSE Fail

ParseBool(f, p) ==
    IF At(f, p) = "true" THEN Parsed(p + 1, TRUE)
    ELSE IF At(f, p) = "false" THEN Parsed(p + 1, FALSE)
    ELSE Fail

\* The value of a field the struct does not have (skipped by the deserializer).
ParseIgnored(f, p) == IF At(f, p) = "\"" THEN ParseString(f, p) ELSE ParseBool(f, p)

\* One object member at a time, from position p (the start of a key); text
\* and completed are the fields read so far, as options.  Each stage passes
\* what it parsed to the next.
RECURSIVE ParseMembers(_, _, _, _)

\* After the member: "," continues with the next key, "}" ends the object,
\* which must then have both fields.
AfterMember(f, e, text, completed) ==
    IF At(f, e) = "," THEN ParseMembers(f, SkipWs(f, e + 1), text, completed)
    ELSE IF At(f, e) = "}" /\ text # None /\ completed # None
         THEN Parsed(e + 1, TodoItem(text[1], completed[1]))
    ELSE Fail

\* r is the parsed value of the field named key.
AfterValue(f, key, r, text, completed) ==
    IF ~r.ok THEN Fail
    ELSE AfterMember(f, SkipWs(f, r.pos),
                     IF key = <<"text">> THEN Some(r.val) ELSE text,
                     IF key = <<"completed">> THEN Some(r.val) ELSE completed)

\* The value at v of the field named key: a string for text, a boolean for
\* completed, anything for another key; a repeated field is an error.
FieldValue(f, key, v, text, completed) ==
    IF key = <<"text">> THEN (IF text # None THEN Fail ELSE ParseString(f, v))
    ELSE IF key = <<"completed">>
         THEN (IF completed # None THEN Fail ELSE ParseBool(f, v))
    ELSE ParseIgnored(f, v)

AfterKey(f, k, text, completed) ==
    IF ~k.ok \/ At(f, SkipWs(f, k.pos)) # ":" THEN Fail
    ELSE AfterValue(f, k.val,
                    FieldValue(f, k.val, SkipWs(f, SkipWs(f, k.pos) + 1), text, completed),
                    text, completed)

ParseMembers(f, p, text, completed) == AfterKey(f, ParseString(f, p), text, completed)

ParseObject(f, p) ==
    IF At(f, p) # "{" \/ At(f, SkipWs(f, p + 1)) = "}" THEN Fail
    ELSE ParseMembers(f, SkipWs(f, p + 1), None, None)

RECURSIVE ParseElements(_, _, _)

\* o is the parsed element: "," continues, "]" ends the array.
AfterElement(f, o, e, acc) ==
    IF At(f, e) = "," THEN ParseElements(f, SkipWs(f, e + 1), Append(acc, o.val))
    ELSE IF At(f, e) = "]" THEN Parsed(e + 1, Append(acc, o.val))
    ELSE Fail

ElementEnd(f, o, acc) ==
    IF ~o.ok THEN Fail ELSE AfterElement(f, o, SkipWs(f, o.pos), acc)

ParseElements(f, p, acc) == ElementEnd(f, ParseObject(f, p), acc)

\* q is the position after "[" and white space.
ParseArray(f, q) ==
    IF At(f, q) = "]" THEN Parsed(q + 1, <<>>) ELSE ParseElements(f, q, <<>>)

\* Only white space may follow the array.
EndOfInput(f, r) == IF r.ok /\ SkipWs(f, r.pos) = Len(f) + 1 THEN r ELSE Fail

from_str(f) ==
    IF At(f, SkipWs(f, 1)) # "[" THEN Fail
    ELSE EndOfInput(f, ParseArray(f, SkipWs(f, SkipWs(f, 1) + 1)))

----------------------------------------------------------------------------
(* The snapshot file *)

File(c) == [status |-> "text", contents |-> c]

AbsentFile == [status |-> "absent", contents |-> <<>>]

\* A file fs::read_to_string fails on (no permission, not UTF-8), or a working
\* directory get_save_path cannot resolve.
UnreadableFile == [status |-> "unreadable", contents |-> <<>>]

\* Lengths at which a failing write can leave the file cut off.
PartialLens(json) == {0, Len(json) \div 2}

\* fs::write(&path, json): the file after the call and the call's result.  A
\* failed call leaves the file as it was (it could not be opened) or leaves a
\* prefix of json (it was truncated and the write stopped).
fs_write(d, json) ==
    {[disk |-> File(json), result |-> "ok"], [disk |-> d, result |-> "failed"]}
    \cup {[disk |-> File(SubSeq(json, 1, n)), result |-> "failed"] : n \in PartialLens(json)}

----------------------------------------------------------------------------
(* App *)

new ==
    [todos |-> << TodoItem(<<"Press 'a' to add a todo">>, FALSE),
                  TodoItem(<<"Press 'Space' to toggle completion">>, FALSE),
                  TodoItem(<<"Press 'd' to delete a todo">>, FALSE),
                  TodoItem(<<"Press 'q' to quit">>, FALSE) >>,
     state |-> Some(0),
     input |-> <<>>,
     input_mode |-> FALSE]

\* Faulty variant of loaded: takes the parsed list even when it is empty.
loaded_keeps_empty(app, parsed) ==
    IF parsed.ok
    THEN [app EXCEPT !.todos = parsed.val, !.state = Some(0)]
    ELSE app

\* The body of load once the file has been read and parsed (or not).
loaded(app, parsed) ==
    IF parsed.ok /\ parsed.val # <<>>
    THEN [app EXCEPT !.todos = parsed.val, !.state = Some(0)]
    ELSE app

load(d) ==
    loaded(new, IF d.status = "text" THEN from_str(d.contents) ELSE Fail)

\* Faulty variant of save: writes the list from the selected item on, so the
\* snapshot depends on the selection.
save_from_selection ==
    \E w \in fs_write(disk, to_string_pretty(
                IF state' # None THEN SubSeq(todos', state'[1] + 1, Len(todos')) ELSE todos')) :
        /\ disk' = w.disk
        /\ saved' = w.result

\* Faulty variant of save: writes the list as it was before the handler ran.
save_stale ==
    \E w \in fs_write(disk, to_string_pretty(todos)) :
        /\ disk' = w.disk
        /\ saved' = w.result

\* save(&self), called after the handler has updated the list.
save ==
    \E w \in fs_write(disk, to_string_pretty(todos')) :
        /\ disk' = w.disk
        /\ saved' = w.result

no_save == /\ saved' = "none"
           /\ UNCHANGED disk

\* Faulty variant of next_selected: stops at the last item instead of wrapping.
next_selected_clamped(l, s) ==
    IF l = <<>> THEN s
    ELSE IF s # None
         THEN (IF s[1] >= Len(l) - 1 THEN Some(Len(l) - 1) ELSE Some(s[1] + 1))
         ELSE Some(0)

\* The selection next() leaves on list l when it finds selection s.
next_selected(l, s) ==
    IF l = <<>> THEN s
    ELSE IF s # None
         THEN (IF s[1] >= Len(l) - 1 THEN Some(0) ELSE Some(s[1] + 1))
         ELSE Some(0)

next == state' = next_selected(todos, state)

\* Faulty variant of previous: stops at the first item instead of wrapping.
previous_no_wrap ==
    IF todos = <<>> THEN UNCHANGED state
    ELSE state' = IF state # None
                  THEN (IF state[1] = 0 THEN Some(0) ELSE Some(state[1] - 1))
                  ELSE Some(0)

\* The selection previous() leaves on list l when it finds selection s.
previous_selected(l, s) ==
    IF l = <<>> THEN s
    ELSE IF s # None
         THEN (IF s[1] = 0 THEN Some(Len(l) - 1) ELSE Some(s[1] - 1))
         ELSE Some(0)

previous == state' = previous_selected(todos, state)

\* Faulty variant of toggle_completed: flips the flag but does not save.
toggle_completed_no_save ==
    IF state # None /\ state[1] < Len(todos)
    THEN /\ todos' = [todos EXCEPT ![state[1] + 1].completed = ~todos[state[1] + 1].completed]
         /\ UNCHANGED state
         /\ no_save
         /\ mutation' = Some([before |-> todos, saved |-> saved'])
    ELSE /\ UNCHANGED <<todos, state, mutation>>
         /\ no_save

\* Faulty variant of toggle_completed: marks the item done instead of flipping.
toggle_completed_sets_done ==
    IF state # None /\ state[1] < Len(todos)
    THEN /\ todos' = [todos EXCEPT ![state[1] + 1].completed = TRUE]
         /\ UNCHANGED state
         /\ save
         /\ mutation' = Some([before |-> todos, saved |-> saved'])
    ELSE /\ UNCHANGED <<todos, state, mutation>>
         /\ no_save

toggle_completed ==
    IF state # None /\ state[1] < Len(todos)
    THEN /\ todos' = [todos EXCEPT ![state[1] + 1].completed = ~todos[state[1] + 1].completed]
         /\ UNCHANGED state
         /\ save
         /\ mutation' = Some([before |-> todos, saved |-> saved'])
    ELSE /\ UNCHANGED <<todos, state, mutation>>
         /\ no_save

\* Vec::remove(i), i 0-based
remove(l, i) == SubSeq(l, 1, i) \o SubSeq(l, i + 2, Len(l))

\* Faulty variant of delete_selected: removes the last item, not the selected one.
delete_selected_pops ==
    IF state # None /\ state[1] < Len(todos)
    THEN /\ todos' = remove(todos, Len(todos) - 1)
         /\ state' = IF todos' # <<>>
                     THEN (IF state[1] >= Len(todos') THEN Some(Len(todos') - 1) ELSE Some(state[1]))
                     ELSE None
         /\ save
         /\ mutation' = Some([before |-> todos, saved |-> saved'])
    ELSE /\ UNCHANGED <<todos, state, mutation>>
         /\ no_save

\* Faulty variant of delete_selected: leaves the selection where it was.
delete_selected_no_repair ==
    IF state # None /\ state[1] < Len(todos)
    THEN /\ todos' = remove(todos, state[1])
         /\ UNCHANGED state
         /\ save
         /\ mutation' = Some([before |-> todos, saved |-> saved'])
    ELSE /\ UNCHANGED <<todos, state, mutation>>
         /\ no_save

\* Faulty variant of delete_selected: always moves the selection up by one.
delete_selected_moves_up ==
    IF state # None /\ state[1] < Len(todos)
    THEN /\ todos' = remove(todos, state[1])
         /\ state' = IF todos' # <<>>
                     THEN (IF state[1] > 0 THEN Some(state[1] - 1) ELSE Some(0))
                     ELSE None
         /\ save
         /\ mutation' = Some([before |-> todos, saved |-> saved'])
    ELSE /\ UNCHANGED <<todos, state, mutation>>
         /\ no_save

delete_selected ==
    IF state # None /\ state[1] < Len(todos)
    THEN /\ todos' = remove(todos, state[1])
         /\ state' = IF todos' # <<>>
                     THEN (IF state[1] >= Len(todos') THEN Some(Len(todos') - 1) ELSE Some(state[1]))
                     ELSE None
         /\ save
         /\ mutation' = Some([before |-> todos, saved |-> saved'])
    ELSE /\ UNCHANGED <<todos, state, mutation>>
         /\ no_save

\* Faulty variant of add_todo: saves right after the push and returns on a
\* failed save, before the buffer, the mode and the selection are updated.
add_todo_returns_on_failure ==
    IF input # <<>>
    THEN /\ todos' = Append(todos, TodoItem(input, FALSE))
         /\ save
         /\ IF saved' = "failed"
            THEN UNCHANGED <<input, input_mode, state>>
            ELSE /\ input' = <<>>
                 /\ input_mode' = FALSE
                 /\ state' = Some(Len(todos') - 1)
         /\ mutation' = Some([before |-> todos, saved |-> saved'])
    ELSE /\ UNCHANGED <<todos, state, input, input_mode, mutation>>
         /\ no_save

\* Faulty variant of add_todo: commits the text but does not clear the buffer.
add_todo_keeps_buffer ==
    IF input # <<>>
    THEN /\ todos' = Append(todos, TodoItem(input, FALSE))
         /\ input_mode' = FALSE
         /\ state' = Some(Len(todos') - 1)
         /\ save
         /\ mutation' = Some([before |-> todos, saved |-> saved'])
         /\ UNCHANGED input
    ELSE /\ UNCHANGED <<todos, state, input, input_mode, mutation>>
         /\ no_save

\* Faulty variant of add_todo: treats a buffer of spaces as empty.
add_todo_trimmed ==
    IF \E k \in 1..Len(input) : input[k] # " "
    THEN /\ todos' = Append(todos, TodoItem(input, FALSE))
         /\ input' = <<>>
         /\ input_mode' = FALSE
         /\ state' = Some(Len(todos') - 1)
         /\ save
         /\ mutation' = Some([before |-> todos, saved |-> saved'])
    ELSE /\ UNCHANGED <<todos, state, input, input_mode, mutation>>
         /\ no_save

add_todo ==
    IF input # <<>>
    THEN /\ todos' = Append(todos, TodoItem(input, FALSE))
         /\ input' = <<>>
         /\ input_mode' = FALSE
         /\ state' = Some(Len(todos') - 1)
         /\ save
         /\ mutation' = Some([before |-> todos, saved |-> saved'])
    ELSE /\ UNCHANGED <<todos, state, input, input_mode, mutation>>
         /\ no_save

----------------------------------------------------------------------------
(* run_app: one loop iteration per action *)

\* An iteration that reads an event: the loop is running and the session
\* bound is not exhausted.
Reads(name) ==
    /\ pc = "loop"
    /\ events < MaxEvents
    /\ events' = events + 1
    /\ op' = name
    /\ UNCHANGED mainvars

\* Faulty variant of NavQuit: 'q' quits in either mode.
NavQuit_any_mode(code) ==
    /\ code = Char("q")
    /\ Reads("quit")
    /\ pc' = "quit"
    /\ no_save
    /\ UNCHANGED <<todos, state, input, input_mode, mutation>>

NavQuit(code) ==
    /\ ~input_mode
    /\ code = Char("q")
    /\ Reads("quit")
    /\ pc' = "quit"
    /\ no_save
    /\ UNCHANGED <<todos, state, input, input_mode, mutation>>

NavNext(code) ==
    /\ ~input_mode
    /\ code \in {Down, Char("j")}
    /\ Reads("next")
    /\ next
    /\ no_save
    /\ UNCHANGED <<todos, input, input_mode, mutation, pc>>

NavPrevious(code) ==
    /\ ~input_mode
    /\ code \in {Up, Char("k")}
    /\ Reads("previous")
    /\ previous
    /\ no_save
    /\ UNCHANGED <<todos, input, input_mode, mutation, pc>>

NavToggle(code) ==
    /\ ~input_mode
    /\ code = Char(" ")
    /\ Reads("toggle_completed")
    /\ toggle_completed
    /\ UNCHANGED <<input, input_mode, pc>>

NavDelete(code) ==
    /\ ~input_mode
    /\ code = Char("d")
    /\ Reads("delete_selected")
    /\ delete_selected
    /\ UNCHANGED <<input, input_mode, pc>>

NavAdd(code) ==
    /\ ~input_mode
    /\ code = Char("a")
    /\ Reads("enter_input")
    /\ input_mode' = TRUE
    /\ no_save
    /\ UNCHANGED <<todos, state, input, mutation, pc>>

NavOther(code) ==
    /\ ~input_mode
    /\ code \notin {Char("q"), Down, Char("j"), Up, Char("k"), Char(" "), Char("d"), Char("a")}
    /\ Reads("ignored")
    /\ no_save
    /\ UNCHANGED <<todos, state, input, input_mode, mutation, pc>>

InputEnter(code) ==
    /\ input_mode
    /\ code = Enter
    /\ Reads("add_todo")
    /\ add_todo
    /\ UNCHANGED pc

InputChar(code) ==
    /\ input_mode
    /\ \E c \in Chars :
          /\ code = Char(c)
          /\ Len(input) < MaxInput
          /\ input' = Append(input, c)
    /\ Reads("push")
    /\ no_save
    /\ UNCHANGED <<todos, state, input_mode, mutation, pc>>

\* Faulty variant of pop: removes the first character instead of the last.
pop_front(s) == IF s = <<>> THEN s ELSE SubSeq(s, 2, Len(s))

\* String::pop
pop(s) == IF s = <<>> THEN s ELSE SubSeq(s, 1, Len(s) - 1)

InputBackspace(code) ==
    /\ input_mode
    /\ code = Backspace
    /\ Reads("pop")
    /\ input' = pop(input)
    /\ no_save
    /\ UNCHANGED <<todos, state, input_mode, mutation, pc>>

\* Faulty variant of InputEsc: leaves input mode but keeps the typed text.
InputEsc_keeps_buffer(code) ==
    /\ input_mode
    /\ code = Esc
    /\ Reads("cancel")
    /\ input_mode' = FALSE
    /\ no_save
    /\ UNCHANGED <<todos, state, input, mutation, pc>>

\* Faulty variant of InputEsc: clears the buffer but stays in input mode.
InputEsc_keeps_mode(code) ==
    /\ input_mode
    /\ code = Esc
    /\ Reads("cancel")
    /\ input' = <<>>
    /\ no_save
    /\ UNCHANGED <<todos, state, input_mode, mutation, pc>>

InputEsc(code) ==
    /\ input_mode
    /\ code = Esc
    /\ Reads("cancel")
    /\ input_mode' = FALSE
    /\ input' = <<>>
    /\ no_save
    /\ UNCHANGED <<todos, state, mutation, pc>>

InputOther(code) ==
    /\ input_mode
    /\ code \notin {Enter, Backspace, Esc}
    /\ code[1] # "Char"
    /\ Reads("ignored")
    /\ no_save
    /\ UNCHANGED <<todos, state, input, input_mode, mutation, pc>>

\* The dispatch of one key press on mode and key code.
KeyPress(code) ==
    \/ NavQuit(code)
    \/ NavNext(code)
    \/ NavPrevious(code)
    \/ NavToggle(code)
    \/ NavDelete(code)
    \/ NavAdd(code)
    \/ NavOther(code)
    \/ InputEnter(code)
    \/ InputChar(code)
    \/ InputBackspace(code)
    \/ InputEsc(code)
    \/ InputOther(code)

\* Faulty variant of KeyNotPress: the kind is not looked at, so a release or a
\* repeat is dispatched like a press.
KeyNotPress_dispatched(kind, code) ==
    /\ kind \in NotPressKinds
    /\ KeyPress(code)

\* A key event whose kind is not Press: `continue`.
KeyNotPress(kind, code) ==
    /\ kind \in NotPressKinds
    /\ code \in KeyCodes
    /\ Reads("not_press")
    /\ no_save
    /\ UNCHANGED <<todos, state, input, input_mode, mutation, pc>>

\* An event that is not a key event (mouse, resize, focus, paste).
NotKey ==
    /\ Reads("not_key")
    /\ no_save
    /\ UNCHANGED <<todos, state, input, input_mode, mutation, pc>>

\* terminal.draw, event::poll or event::read returns Err: `?` returns it.
LoopError ==
    /\ pc = "loop"
    /\ pc' = "error"
    /\ op' = "io_error"
    /\ no_save
    /\ UNCHANGED <<todos, state, input, input_mode, mutation, events>>
    /\ UNCHANGED mainvars

----------------------------------------------------------------------------
(* Snapshot files a session can start from *)

SampleLists ==
    { << TodoItem(<<"q">>, TRUE) >>,
      << TodoItem(<<"a">>, FALSE), TodoItem(<<"a">>, FALSE) >>,
      << TodoItem(<<"\"">>, FALSE), TodoItem(<<"\\", " ">>, TRUE), TodoItem(<<"d">>, FALSE) >> }

\* [{"completed":true,"id":"k","text":"j"}]
CompactFile ==
    File(<< "[", "{", "\"", "completed", "\"", ":", "true", ",",
            "\"", "id", "\"", ":", "\"", "k", "\"", ",",
            "\"", "text", "\"", ":", "\"", "j", "\"", "}", "]" >>)

EmptyListFile == File(<<"[", "]">>)

MalformedFiles ==
    { File(<<>>),
      File(<<"[", "\n", " ", " ", "{">>),
      File(<<"[", "{", "\"", "text", "\"", ":", "\"", "a", "\"", "}", "]">>),
      File(<<"[", "{", "\"", "text", "\"", ":", "\"", "\\", "q", "\"", ",",
             "\"", "completed", "\"", ":", "false", "}", "]">>),
      File(<<"[", "]", "q">>) }

ListFiles == {File(to_string_pretty(l)) : l \in SampleLists} \cup {CompactFile}

FallbackFiles == {AbsentFile, UnreadableFile, EmptyListFile} \cup MalformedFiles

InitFiles == FallbackFiles \cup ListFiles

----------------------------------------------------------------------------
(* Specification of the event loop *)

\* main: App::load(), then run_app.
Start(app) ==
    /\ todos = app.todos
    /\ state = app.state
    /\ input = app.input
    /\ input_mode = app.input_mode

Init ==
    /\ disk \in InitFiles
    /\ Start(load(disk))
    /\ pc = "loop"
    /\ op = "load"
    /\ saved = "none"
    /\ mutation = None
    /\ events = 0
    /\ main = "run_app"
    /\ term = [raw |-> TRUE, alt |-> TRUE]
    /\ teardown = <<>>
    /\ printed = FALSE

Next ==
    \/ \E code \in KeyCodes : KeyPress(code)
    \/ \E kind \in NotPressKinds, code \in KeyCodes : KeyNotPress(kind, code)
    \/ NotKey
    \/ LoopError

Spec == Init /\ [][Next]_vars

----------------------------------------------------------------------------
(* main: terminal setup, the loop, terminal restoration *)

appstate == <<todos, state, input, input_mode, disk, pc, op, saved, mutation, events>>

\* main returns: Ok(()) from its last line, or the Err a `?` passes on.
Returns(result) == main' = result

\* enable_raw_mode()?
EnableRawMode ==
    /\ main = "enable_raw_mode"
    /\ \/ /\ term' = [term EXCEPT !.raw = TRUE]
          /\ main' = "enter_alternate_screen"
       \/ /\ UNCHANGED term
          /\ Returns("err")
    /\ UNCHANGED <<appstate, teardown, printed>>

\* execute!(stdout, EnterAlternateScreen, EnableMouseCapture)?
EnterAlternateScreen ==
    /\ main = "enter_alternate_screen"
    /\ \/ /\ term' = [term EXCEPT !.alt = TRUE]
          /\ main' = "new_terminal"
       \/ /\ UNCHANGED term
          /\ Returns("err")
    /\ UNCHANGED <<appstate, teardown, printed>>

\* Terminal::new(backend)?
NewTerminal ==
    /\ main = "new_terminal"
    /\ \/ main' = "load"
       \/ Returns("err")
    /\ UNCHANGED <<appstate, term, teardown, printed>>

\* run_app takes ownership of the App that main loaded.
Entered(app) ==
    /\ todos' = app.todos
    /\ state' = app.state
    /\ input' = app.input
    /\ input_mode' = app.input_mode

\* let app = App::load(); run_app(&mut terminal, app) is entered.
LoadApp ==
    /\ main = "load"
    /\ Entered(load(disk))
    /\ pc' = "loop"
    /\ op' = "load"
    /\ main' = "run_app"
    /\ UNCHANGED <<disk, saved, mutation, events, term, teardown, printed>>

\* run_app has returned (Ok on quit, Err on an I/O error): disable_raw_mode()?
DisableRawMode ==
    /\ main = "run_app"
    /\ pc \in {"quit", "error"}
    /\ teardown' = Append(teardown, "disable_raw_mode")
    /\ \/ /\ term' = [term EXCEPT !.raw = FALSE]
          /\ main' = "leave_alternate_screen"
       \/ /\ UNCHANGED term
          /\ Returns("err")
    /\ UNCHANGED <<appstate, printed>>

\* execute!(terminal.backend_mut(), LeaveAlternateScreen, DisableMouseCapture)?
LeaveAlternateScreen ==
    /\ main = "leave_alternate_screen"
    /\ teardown' = Append(teardown, "leave_alternate_screen")
    /\ \/ /\ term' = [term EXCEPT !.alt = FALSE]
          /\ main' = "show_cursor"
       \/ /\ UNCHANGED term
          /\ Returns("err")
    /\ UNCHANGED <<appstate, printed>>

\* terminal.show_cursor()?
ShowCursor ==
    /\ main = "show_cursor"
    /\ teardown' = Append(teardown, "show_cursor")
    /\ \/ main' = "print"
       \/ Returns("err")
    /\ UNCHANGED <<appstate, term, printed>>

\* if let Err(err) = res { println!("{:?}", err) }; Ok(())
PrintAndReturn ==
    /\ main = "print"
    /\ printed' = (pc = "error")
    /\ Returns("ok")
    /\ UNCHANGED <<appstate, term, teardown>>

\* Snapshot files the executions of main start from.
MainFiles == {AbsentFile, File(to_string_pretty(<< TodoItem(<<"q">>, TRUE) >>))}

\* The process starts: no App yet, the terminal as the shell left it.
MainInit ==
    /\ disk \in MainFiles
    /\ todos = <<>>
    /\ state = None
    /\ input = <<>>
    /\ input_mode = FALSE
    /\ pc = "not_started"
    /\ op = "none"
    /\ saved = "none"
    /\ mutation = None
    /\ events = 0
    /\ main = "enable_raw_mode"
    /\ term = [raw |-> FALSE, alt |-> FALSE]
    /\ teardown = <<>>
    /\ printed = FALSE

MainNext ==
    \/ EnableRawMode
    \/ EnterAlternateScreen
    \/ NewTerminal
    \/ LoadApp
    \/ Next
    \/ DisableRawMode
    \/ LeaveAlternateScreen
    \/ ShowCursor
    \/ PrintAndReturn

MainSpec == MainInit /\ [][MainNext]_vars

----------------------------------------------------------------------------
(* Properties *)

\* The snapshot file that holds exactly list l.
Snapshot(l) == File(to_string_pretty(l))

\* The last loop iteration read an event and ran handler name.
Ran(name) == op' = name /\ events' = events + 1

\* C1 - Selection invariant: in every state reachable from load() by key
\* events in either mode, the selection is None exactly when the list is
\* empty, and otherwise it is an index s with 0 <= s < len(list).
C1_SelectionInvariant ==
    /\ state = None <=> todos = <<>>
    /\ state # None => (state[1] >= 0 /\ state[1] < Len(todos))

\* An item was added to a list that a delete had emptied.
C1_Witness ==
    /\ op = "add_todo"
    /\ mutation # None
    /\ mutation[1].before = <<>>
    /\ state = Some(0)
    /\ Len(todos) = 1

\* C2 as claimed - Round trip for every list: whenever a save has just
\* succeeded, load() of the snapshot yields the in-memory list.
C2_RoundTripEveryList == saved = "ok" => load(disk).todos = todos

\* C2 as amended - Round trip for every non-empty list: whenever a save has
\* just succeeded on a non-empty list, load() of the snapshot yields that list
\* (order, text and completed flags); after a successful save of the empty
\* list, load() yields the four default items.
C2_RoundTripNonEmpty ==
    saved = "ok" =>
        load(disk).todos = IF todos = <<>> THEN new.todos ELSE todos

\* A saved list whose last item's text is a backslash followed by a quote.
C2_Witness ==
    /\ saved = "ok"
    /\ op = "add_todo"
    /\ todos[Len(todos)].text = <<"\\", "\"">>

\* C3 - Load fallback: from an absent, unreadable, malformed or empty-list
\* file load() returns the state of new() (four default items, none completed,
\* selection Some(0), Navigation mode, empty buffer); from a file holding a
\* non-empty list it returns that list with selection Some(0), Navigation mode
\* and empty buffer.  load() has no error exit: the loop is entered.
C3_LoadFallback ==
    op = "load" =>
        /\ pc = "loop"
        /\ state = Some(0)
        /\ input_mode = FALSE
        /\ input = <<>>
        /\ disk \in FallbackFiles =>
              /\ Len(todos) = 4
              /\ \A k \in 1..4 : todos[k].completed = FALSE
              /\ todos[1].text = <<"Press 'a' to add a todo">>
              /\ todos[2].text = <<"Press 'Space' to toggle completion">>
              /\ todos[3].text = <<"Press 'd' to delete a todo">>
              /\ todos[4].text = <<"Press 'q' to quit">>
        /\ \A l \in SampleLists : disk = Snapshot(l) => todos = l
        /\ disk = CompactFile => todos = << TodoItem(<<"j">>, TRUE) >>

\* Started from a malformed file with the default items.
C3_Witness ==
    /\ op = "load"
    /\ disk \in MalformedFiles
    /\ Len(todos) = 4

C5_DeleteRepair ==
    [][(Ran("delete_selected") /\ state # None) =>
         /\ Len(todos) = 1 => state' = None
         /\ (Len(todos) > 1 /\ state[1] = Len(todos) - 1) => state' = Some(Len(todos) - 2)
         /\ (Len(todos) > 1 /\ state[1] < Len(todos) - 1) =>
               /\ state' = Some(state[1])
               /\ todos'[state[1] + 1] = todos[state[1] + 2]]_vars

\* The middle item of a three-item list was deleted: the selection stays at
\* index 1, which now holds the former third item.
C5_Witness ==
    /\ op = "delete_selected"
    /\ mutation # None
    /\ Len(mutation[1].before) = 3
    /\ state = Some(1)
    /\ todos = << mutation[1].before[1], mutation[1].before[3] >>
    /\ mutation[1].before[2] # mutation[1].before[3]

\* C6 - Wrap-around navigation: on a list of length N >= 1, next() moves
\* selection i to i+1 for i < N-1 and from N-1 to 0, previous() moves i to i-1
\* for i > 0 and from 0 to N-1; on an empty list both leave the selection None.
C6_WrapAround ==
    [][/\ (Ran("next") /\ todos # <<>> /\ state # None) =>
             state' = IF state[1] < Len(todos) - 1 THEN Some(state[1] + 1) ELSE Some(0)
       /\ (Ran("previous") /\ todos # <<>> /\ state # None) =>
             state' = IF state[1] > 0 THEN Some(state[1] - 1) ELSE Some(Len(todos) - 1)
       /\ ((Ran("next") \/ Ran("previous")) /\ todos # <<>>) => state # None
       /\ ((Ran("next") \/ Ran("previous")) /\ todos = <<>>) =>
             (state = None /\ state' = None)]_vars

\* previous() from the initial selection 0 wrapped to the last of several items.
C6_Witness ==
    /\ op = "previous"
    /\ events = 1
    /\ Len(todos) >= 2
    /\ state = Some(Len(todos) - 1)

\* C7 - Input commit discipline: in Input mode, Enter with an empty buffer
\* leaves mode (Input), buffer, list, selection and snapshot unchanged; Enter
\* with a non-empty buffer b (spaces included, no trimming) appends exactly
\* {text: b, completed: false} leaving earlier items unchanged, clears the
\* buffer, sets mode to Navigation, selects the new last index, and saves.
C7_CommitDiscipline ==
    [][(input_mode /\ KeyPress(Enter)) =>
         /\ Ran("add_todo")
         /\ input = <<>> =>
               /\ input_mode'
               /\ UNCHANGED <<input, todos, state, disk>>
               /\ saved' = "none"
         /\ input # <<>> =>
               /\ Len(todos') = Len(todos) + 1
               /\ \A k \in 1..Len(todos) : todos'[k] = todos[k]
               /\ todos'[Len(todos')] = [text |-> input, completed |-> FALSE]
               /\ input' = <<>>
               /\ ~input_mode'
               /\ state' = Some(Len(todos))
               /\ saved' \in {"ok", "failed"}
               /\ saved' = "ok" => disk' = Snapshot(todos')]_vars

\* A buffer holding one space was committed as an item.
C7_Witness ==
    /\ op = "add_todo"
    /\ ~input_mode
    /\ input = <<>>
    /\ todos[Len(todos)] = [text |-> <<" ">>, completed |-> FALSE]
    /\ state = Some(Len(todos) - 1)

\* C8 - Toggle involution: with selection i in bounds, toggle_completed()
\* flips item i's completed flag and changes nothing else (other items, texts,
\* length, order, selection, mode, buffer); toggling twice in a row at the
\* same index restores the list.
C8_ToggleInvolution ==
    [][/\ (Ran("toggle_completed") /\ state # None) =>
            /\ Len(todos') = Len(todos)
            /\ \A k \in 1..Len(todos) :
                  /\ todos'[k].text = todos[k].text
                  /\ todos'[k].completed =
                        IF k = state[1] + 1 THEN ~todos[k].completed ELSE todos[k].completed
            /\ UNCHANGED <<state, input_mode, input>>
       /\ (op = "toggle_completed" /\ saved # "none" /\ Ran("toggle_completed")) =>
            todos' = mutation[1].before]_vars

\* Two toggles in a row of a default item returned it to not completed.
C8_Witness ==
    /\ op = "toggle_completed"
    /\ events = 2
    /\ Len(todos) = 4
    /\ \A k \in 1..4 : ~todos[k].completed
    /\ mutation # None
    /\ mutation[1].before # todos

\* C9 as claimed - Quit only from Navigation: the loop stops only through a
\* press of 'q' in Navigation mode; in Input mode no key event stops it and a
\* 'q' press is appended to the buffer.
C9_QuitOnlyByKey ==
    [][/\ (pc = "loop" /\ pc' # "loop") => (~input_mode /\ KeyPress(Char("q")))
       /\ (input_mode /\ events' = events + 1) => pc' = "loop"
       /\ (input_mode /\ KeyPress(Char("q"))) => input' = Append(input, "q")]_vars

\* C9 as amended - the loop stops only through a press of 'q' in Navigation
\* mode, which returns Ok, or through an I/O error of draw, poll or read,
\* which returns Err in either mode; in Input mode no key event stops it and
\* a 'q' press is appended to the buffer.
C9_QuitOnlyByKeyOrError ==
    [][/\ (pc = "loop" /\ pc' # "loop") =>
            \/ (pc' = "quit" /\ ~input_mode /\ KeyPress(Char("q")))
            \/ (pc' = "error" /\ op' = "io_error" /\ events' = events)
       /\ (input_mode /\ events' = events + 1) => pc' = "loop"
       /\ (input_mode /\ KeyPress(Char("q"))) => input' = Append(input, "q")
       /\ pc # "loop" => UNCHANGED vars]_vars

\* 'q' was typed into the buffer and the loop is still running.
C9_Witness ==
    /\ pc = "loop"
    /\ input_mode
    /\ op = "push"
    /\ input # <<>>
    /\ input[Len(input)] = "q"

\* C10 - Mode transitions: the mode changes only from Navigation to Input on
\* 'a' (list, selection, buffer and snapshot unchanged), from Input to
\* Navigation on Enter with a non-empty buffer, and from Input to Navigation
\* on Esc; these steps do change it, and a step of any other kind (any other
\* key event in either mode) leaves it unchanged.
C10_ModeTransitions ==
    [][/\ input_mode' # input_mode =>
            \/ (~input_mode /\ KeyPress(Char("a")) /\ UNCHANGED <<todos, state, input, disk>>)
            \/ (input_mode /\ KeyPress(Enter) /\ input # <<>>)
            \/ (input_mode /\ KeyPress(Esc))
       /\ (~input_mode /\ KeyPress(Char("a"))) => input_mode'
       /\ (input_mode /\ KeyPress(Enter) /\ input # <<>>) => ~input_mode'
       /\ (input_mode /\ KeyPress(Esc)) => ~input_mode']_vars

\* Input mode was entered with 'a' and left with Esc after typing.
C10_Witness ==
    /\ op = "cancel"
    /\ ~input_mode
    /\ events = 3
    /\ mutation = None

\* The restoration calls of main, in the order main makes them.
TeardownSteps == <<"disable_raw_mode", "leave_alternate_screen", "show_cursor">>

\* main has called this restoration step.
Attempted(step) == \E i \in DOMAIN teardown : teardown[i] = step

\* main has returned, with Ok(()) or with an Err.
Returned == main \in {"ok", "err"}

\* enable_raw_mode() has succeeded in this execution: raw mode is still on,
\* or main has reached the call that turns it off.
RawModeWasEnabled == term.raw \/ Attempted("disable_raw_mode")

\* C11 - Unconditional teardown: in every execution of main in which raw mode
\* was enabled, when main has returned - whichever later setup or teardown
\* step failed - each of the three teardown steps (disable raw mode, leave
\* alternate screen and disable mouse capture, show cursor) has been attempted.
C11_TeardownAlwaysAttempted ==
    (Returned /\ RawModeWasEnabled) =>
        \A i \in DOMAIN TeardownSteps : Attempted(TeardownSteps[i])

\* C12 - Restoration precedes the diagnostic: once the loop has returned, by
\* quit or by error, main does not return before the three restoration steps
\* have been executed, and the diagnostic of a loop error is printed only
\* after all three have been executed.
C12_RestorationBeforeDiagnostic ==
    /\ (Returned /\ pc \in {"quit", "error"}) => teardown = TeardownSteps
    /\ printed => (pc = "error" /\ teardown = TeardownSteps)

\* C13 - Cancel: in Input mode, whatever the buffer holds, an Esc press
\* empties the buffer and sets the mode to Navigation; the list, the selection
\* and the snapshot file are unchanged, save is not invoked and the loop goes on.
C13_Cancel ==
    [][(input_mode /\ KeyPress(Esc)) =>
            /\ input' = <<>>
            /\ ~input_mode'
            /\ UNCHANGED <<todos, state, disk>>
            /\ saved' = "none"
            /\ pc' = "loop"]_vars

\* After a saved mutation, text was typed and cancelled: the snapshot is still
\* the one of that mutation.
C13_Witness ==
    /\ op = "cancel"
    /\ events = MaxEvents
    /\ mutation # None
    /\ input = <<>>
    /\ ~input_mode
    /\ disk = Snapshot(todos)

\* C14 - Press-only dispatch: a key event whose kind is Release or Repeat, for
\* any key code and in either mode, leaves list, selection, mode, buffer and
\* snapshot file unchanged, invokes no save and does not end the loop; the
\* release that follows a press therefore adds nothing to what the press did.
C14_PressOnlyDispatch ==
    [][(\E kind \in NotPressKinds, code \in KeyCodes : KeyNotPress(kind, code)) =>
            /\ UNCHANGED <<todos, state, input_mode, input, disk>>
            /\ saved' = "none"
            /\ pc = "loop"
            /\ pc' = "loop"]_vars

\* A character was typed in Input mode and the release of a key came next.
C14_Witness ==
    /\ op = "not_press"
    /\ input_mode
    /\ input # <<>>
    /\ events = 3

\* C15 - Save failure is swallowed: when the save made by add, toggle or
\* delete fails, the list, selection, mode and buffer after the step are those
\* the same key press produces when the save succeeds, and the loop goes on
\* without an error; a step that does not change the list attempts no write and
\* leaves the file alone, so nothing is written again before the next mutation.
C15_SaveFailureSwallowed ==
    [][/\ saved' = "failed" =>
            /\ pc' = "loop"
            /\ \E after \in {<<todos', state', input', input_mode', op'>>} :
                 \E code \in KeyCodes :
                    ENABLED (/\ KeyPress(code)
                             /\ saved' = "ok"
                             /\ <<todos', state', input', input_mode', op'>> = after)
       /\ todos' = todos => (saved' = "none" /\ disk' = disk)]_vars

\* A save failed, the file is not the snapshot of the list, and the session
\* went on with an event that wrote nothing.
C15_Witness ==
    /\ mutation # None
    /\ mutation[1].saved = "failed"
    /\ saved = "none"
    /\ pc = "loop"
    /\ disk # Snapshot(todos)

\* C16 - Buffer empty outside Input mode: in every reachable state whose mode
\* is Navigation the input buffer is empty, and every step that enters Input
\* mode by the 'a' key ends with an empty buffer.
C16_BufferEmptyInNavigation ==
    /\ [](~input_mode => input = <<>>)
    /\ [][(~input_mode /\ KeyPress(Char("a"))) => (input_mode' /\ input' = <<>>)]_vars

\* Input mode was entered again after a commit had left it.
C16_Witness ==
    /\ op = "enter_input"
    /\ input_mode
    /\ input = <<>>
    /\ mutation # None
    /\ Len(todos) = Len(mutation[1].before) + 1

\* C17 - Input-mode isolation: while the mode is Input, the press of a
\* printable character ('j', 'k', 'd', 'a', 'q' and space included) only
\* appends that character to the end of the buffer, and a Backspace press only
\* removes the last character, or does nothing on an empty buffer; in both
\* cases list, selection, mode and snapshot file are unchanged and nothing is
\* saved.  In Input mode the list and the file change only on an Enter press
\* with a non-empty buffer.
C17_InputModeIsolation ==
    [][input_mode =>
         /\ \A c \in Chars :
               KeyPress(Char(c)) =>
                   /\ input' = Append(input, c)
                   /\ UNCHANGED <<todos, state, input_mode, disk, pc>>
                   /\ saved' = "none"
         /\ KeyPress(Backspace) =>
               /\ Len(input') = (IF input = <<>> THEN 0 ELSE Len(input) - 1)
               /\ \A k \in 1..Len(input') : input'[k] = input[k]
               /\ UNCHANGED <<todos, state, input_mode, disk, pc>>
               /\ saved' = "none"
         /\ (todos' # todos \/ disk' # disk) => (KeyPress(Enter) /\ input # <<>>)]_vars

\* Two characters were typed and the second one was erased.
C17_Witness ==
    /\ op = "pop"
    /\ input_mode
    /\ Len(input) = 1
    /\ events = 4
    /\ todos = new.todos

\* The last save of the session succeeded.
LastSaveSucceeded == mutation # None /\ mutation[1].saved = "ok"

\* The App a restart builds from the snapshot of list l, if load returns l.
Restarted(l) == [todos |-> l, state |-> Some(0), input |-> <<>>, input_mode |-> FALSE]

\* C18 as stated - Snapshot depends on the list only: after a successful save,
\* whatever the selection, the mode and the buffer are by now, the file is the
\* snapshot of the list alone, and a restart loads that list with selection
\* Some(0), mode Navigation and an empty buffer.
C18_SnapshotOfListOnly ==
    LastSaveSucceeded =>
        /\ disk = Snapshot(todos)
        /\ load(disk) = Restarted(todos)

\* C18 - Snapshot depends on the list only: after a successful save, whatever
\* the selection, the mode and the buffer are by now, the file is the snapshot
\* of the list alone, and a restart loads a state that the list alone
\* determines: that list - or the four default items when the list is empty -
\* with selection Some(0), mode Navigation and an empty buffer.
C18_RestartDeterminedByList ==
    LastSaveSucceeded =>
        /\ disk = Snapshot(todos)
        /\ load(disk) = (IF todos = <<>> THEN new ELSE Restarted(todos))

\* After a successful save the selection is not the first item, the mode is
\* Input and the buffer holds text: none of it is in the file.
C18_Witness ==
    /\ LastSaveSucceeded
    /\ input_mode
    /\ input # <<>>
    /\ state # None
    /\ state # Some(0)

\* C19 - Delete removes exactly the selected item: with the selection i in
\* bounds, a delete step yields the list with the element at position i
\* removed - one item fewer, every other item with its text and flag and in the
\* same order - and then calls save, which writes the snapshot of the new list
\* when it succeeds.  With no selection (the list is empty) a delete step and a
\* toggle step leave list, selection and file unchanged and do not call save.
C19_DeleteExactlySelected ==
    [][/\ (~input_mode /\ KeyPress(Char("d")) /\ state # None /\ state[1] < Len(todos)) =>
            /\ Len(todos') = Len(todos) - 1
            /\ \A k \in 1..Len(todos') :
                  todos'[k] = (IF k <= state[1] THEN todos[k] ELSE todos[k + 1])
            /\ saved' # "none"
            /\ saved' = "ok" => disk' = Snapshot(todos')
       /\ (~input_mode /\ (KeyPress(Char("d")) \/ KeyPress(Char(" "))) /\ state = None) =>
            /\ todos = <<>>
            /\ UNCHANGED <<todos, state, disk>>
            /\ saved' = "none"]_vars

\* The middle item of a three-item list was deleted and the list was saved.
C19_Witness ==
    /\ op = "delete_selected"
    /\ saved = "ok"
    /\ mutation # None
    /\ Len(mutation[1].before) = 3
    /\ todos = <<mutation[1].before[1], mutation[1].before[3]>>
    /\ disk = Snapshot(todos)

\* Delete and toggle were pressed on an emptied list: nothing happened.
C19_WitnessNoSelection ==
    /\ op \in {"delete_selected", "toggle_completed"}
    /\ todos = <<>>
    /\ state = None
    /\ saved = "none"

\* n consecutive calls of next() on list l, starting from selection s.
RECURSIVE NextTimes(_, _, _)
NextTimes(n, l, s) == IF n = 0 THEN s ELSE NextTimes(n - 1, l, next_selected(l, s))

\* C20 - Navigation is a pure cursor move: a next or previous step leaves the
\* list, the mode, the buffer and the snapshot file unchanged and calls no
\* save; previous() applied to the state a next step produced restores the
\* selection the step started from, and next() applied after a previous step
\* does the same; and in every reachable state, on a list of length N, N
\* consecutive next() calls bring the selection back to where it is.
C20_NavigationPureCursorMove ==
    /\ [][/\ (\E code \in {Down, Char("j"), Up, Char("k")} : ~input_mode /\ KeyPress(code)) =>
                /\ UNCHANGED <<todos, input_mode, input, disk, pc>>
                /\ saved' = "none"
          /\ (\E code \in {Down, Char("j")} : ~input_mode /\ KeyPress(code)) =>
                /\ state' = next_selected(todos, state)
                /\ previous_selected(todos', state') = state
          /\ (\E code \in {Up, Char("k")} : ~input_mode /\ KeyPress(code)) =>
                /\ state' = previous_selected(todos, state)
                /\ next_selected(todos', state') = state]_vars
    /\ [](/\ previous_selected(todos, next_selected(todos, state)) = state
          /\ next_selected(todos, previous_selected(todos, state)) = state
          /\ NextTimes(Len(todos), todos, state) = state)

\* Four events on the four default items, the last of them a next step that
\* wrapped from the last item to the first.
C20_Witness ==
    /\ op = "next"
    /\ events = 4
    /\ Len(todos) = 4
    /\ state = Some(0)
    /\ mutation = None

====
